---- MODULE Spec2Model ----
(***************************************************************************)
(* Model of command.py, the command-line controller of an Onkyo receiver   *)
(* over a serial line.  One behaviour of Spec is one invocation of the     *)
(* script: main() parses the arguments, the selected handler runs, and     *)
(* every send_command() call is one open / write / read / close cycle on   *)
(* the serial port.                                                        *)
(*                                                                         *)
(* Byte strings and Python str values are sequences of one-character       *)
(* strings.  The three bytes that have no printable form are the tokens    *)
(* CR (0x0D), SUB (0x1A) and HiByte (0x80, a byte outside ASCII).          *)
(* Arithmetic follows Python 3: `/` is true division and int() truncates   *)
(* toward zero.                                                            *)
(***************************************************************************)
EXTENDS Integers, Sequences, FiniteSets, TLC

CR == "CR"
SUB == "SUB"
HiByte == "x80"

(***************************************************************************)
(* Bounds of the model.                                                    *)
(***************************************************************************)
\* receiver volume levels 0..MaxLevel appear in MVL status responses
MaxLevel == 96
\* absolute volume arguments "0".."MaxAbs"
MaxAbs == 104
\* relative volume arguments "+0".."+MaxDelta" and "-0".."-MaxDelta"
MaxDelta == 11

(***************************************************************************)
(* Python string and number primitives used by the script.                 *)
(***************************************************************************)
UpperLetters == <<"A","B","C","D","E","F","G","H","I","J","K","L","M",
                  "N","O","P","Q","R","S","T","U","V","W","X","Y","Z">>
LowerLetters == <<"a","b","c","d","e","f","g","h","i","j","k","l","m",
                  "n","o","p","q","r","s","t","u","v","w","x","y","z">>
DecDigits == <<"0","1","2","3","4","5","6","7","8","9">>

IndexIn(c, seq) ==
    IF \E i \in 1..Len(seq) : seq[i] = c
    THEN CHOOSE i \in 1..Len(seq) : seq[i] = c
    ELSE 0

\* str.lower() and str.upper(), one character
LowerChar(c) ==
    IF IndexIn(c, UpperLetters) > 0 THEN LowerLetters[IndexIn(c, UpperLetters)] ELSE c
UpperChar(c) ==
    IF IndexIn(c, LowerLetters) > 0 THEN UpperLetters[IndexIn(c, LowerLetters)] ELSE c

StrLower(s) == [i \in 1..Len(s) |-> LowerChar(s[i])]
StrUpper(s) == [i \in 1..Len(s) |-> UpperChar(s[i])]

\* the value of character c as a digit of the base, or -1
DigitVal(c, base) ==
    IF IndexIn(c, DecDigits) > 0 THEN IndexIn(c, DecDigits) - 1
    ELSE IF base = 16 /\ IndexIn(LowerChar(c), <<"a","b","c","d","e","f">>) > 0
         THEN 9 + IndexIn(LowerChar(c), <<"a","b","c","d","e","f">>)
         ELSE -1

RECURSIVE LStrip(_, _)
LStrip(s, chars) ==
    IF s # <<>> /\ Head(s) \in chars THEN LStrip(Tail(s), chars) ELSE s

RECURSIVE RStrip(_, _)
RStrip(s, chars) ==
    IF s # <<>> /\ s[Len(s)] \in chars
    THEN RStrip(SubSeq(s, 1, Len(s) - 1), chars)
    ELSE s

\* str.strip(chars)
Strip(s, chars) == RStrip(LStrip(s, chars), chars)

StartsWith(s, p) == Len(s) >= Len(p) /\ SubSeq(s, 1, Len(p)) = p

\* str.replace(pat, ''): every non-overlapping occurrence, left to right
RECURSIVE Remove(_, _)
Remove(s, pat) ==
    IF s = <<>> THEN <<>>
    ELSE IF StartsWith(s, pat) THEN Remove(SubSeq(s, Len(pat) + 1, Len(s)), pat)
    ELSE <<Head(s)>> \o Remove(Tail(s), pat)

\* bytes.decode('ascii') succeeds
IsAscii(b) == \A i \in 1..Len(b) : b[i] # HiByte

\* the digits of int(): digits of the base, single underscores between them
RECURSIVE DigitsValue(_, _, _)
DigitsValue(s, base, acc) ==
    IF s = <<>> THEN acc
    ELSE IF Head(s) = "_" THEN DigitsValue(Tail(s), base, acc)
    ELSE DigitsValue(Tail(s), base, acc * base + DigitVal(Head(s), base))

DigitsOK(s, base, prefixed) ==
    /\ s # <<>>
    /\ \A i \in 1..Len(s) : s[i] = "_" \/ DigitVal(s[i], base) >= 0
    /\ s[Len(s)] # "_"
    /\ (s[1] = "_" => prefixed)
    /\ \A i \in 1..(Len(s) - 1) : ~(s[i] = "_" /\ s[i + 1] = "_")

\* int(s, base) for base 10 or 16: [ok |-> FALSE] is ValueError
PyInt(s, base) ==
    LET t == Strip(s, {" ", CR})
        signed == t # <<>> /\ Head(t) \in {"+", "-"}
        neg == signed /\ Head(t) = "-"
        u == IF signed THEN Tail(t) ELSE t
        prefixed == base = 16 /\ Len(u) >= 2 /\ u[1] = "0" /\ u[2] \in {"x", "X"}
        d == IF prefixed THEN SubSeq(u, 3, Len(u)) ELSE u
    IN  IF DigitsOK(d, base, prefixed)
        THEN [ok |-> TRUE,
              val |-> IF neg THEN 0 - DigitsValue(d, base, 0)
                             ELSE DigitsValue(d, base, 0)]
        ELSE [ok |-> FALSE, val |-> 0]

HexDigits == <<"0","1","2","3","4","5","6","7","8","9","a","b","c","d","e","f">>

RECURSIVE HexStr(_)
HexStr(n) ==
    IF n < 16 THEN <<HexDigits[n + 1]>>
    ELSE HexStr(n \div 16) \o <<HexDigits[(n % 16) + 1]>>

\* format(n, '02x'): sign-aware zero padding to width 2
Format02x(n) ==
    IF n < 0 THEN <<"-">> \o HexStr(0 - n)
    ELSE IF n < 16 THEN <<"0">> \o HexStr(n)
    ELSE HexStr(n)

\* int(a / b) for b > 0: truncation toward zero
TruncDiv(a, b) == IF a >= 0 THEN a \div b ELSE 0 - ((0 - a) \div b)

(***************************************************************************)
(* String literals of the script.                                          *)
(***************************************************************************)
S_on == <<"o", "n">>
S_off == <<"o", "f", "f">>
S_toggle == <<"t", "o", "g", "g", "l", "e">>
S_status == <<"s", "t", "a", "t", "u", "s">>
S_mute == <<"m", "u", "t", "e">>
S_unmute == <<"u", "n", "m", "u", "t", "e">>
S_wii == <<"w", "i", "i">>
S_vcr == <<"v", "c", "r">>
S_dvr == <<"d", "v", "r">>
S_vcrdvr == <<"v", "c", "r", "/", "d", "v", "r">>
S_cable == <<"c", "a", "b", "l", "e">>
S_xbox == <<"x", "b", "o", "x">>
S_xbox360 == <<"x", "b", "o", "x", "3", "6", "0">>
S_360 == <<"3", "6", "0">>
S_pc == <<"p", "c">>
S_linux == <<"l", "i", "n", "u", "x">>
S_aux2 == <<"a", "u", "x", "2">>
PWR01 == <<"P", "W", "R", "0", "1">>
PWR00 == <<"P", "W", "R", "0", "0">>
PWRQSTN == <<"P", "W", "R", "Q", "S", "T", "N">>
MVLQSTN == <<"M", "V", "L", "Q", "S", "T", "N">>
AMT01 == <<"A", "M", "T", "0", "1">>
AMT00 == <<"A", "M", "T", "0", "0">>
AMTQSTN == <<"A", "M", "T", "Q", "S", "T", "N">>
SLIQSTN == <<"S", "L", "I", "Q", "S", "T", "N">>
SLI00 == <<"S", "L", "I", "0", "0">>
SLI01 == <<"S", "L", "I", "0", "1">>
SLI02 == <<"S", "L", "I", "0", "2">>
SLI03 == <<"S", "L", "I", "0", "3">>
SLI04 == <<"S", "L", "I", "0", "4">>
Preamble == <<"!", "1">>
MVL == <<"M", "V", "L">>
QSTN == <<"Q", "S", "T", "N">>
PowerOffResponse == <<"!", "1", "P", "W", "R", "0", "0", SUB>>
PowerOnResponse == <<"!", "1", "P", "W", "R", "0", "1", SUB>>
MuteOffResponse == <<"!", "1", "A", "M", "T", "0", "0", SUB>>
MuteOnResponse == <<"!", "1", "A", "M", "T", "0", "1", SUB>>

(***************************************************************************)
(* send_command: the frame and the size of the read.                       *)
(***************************************************************************)
\* "".join(['!1', command, '\r'])
Encode(command) == Preamble \o command \o <<CR>>

ReadSize_16 == 10 + 6
\* ser.read(size=10)
ReadSize == 10

(***************************************************************************)
(* main(): the argument parser.                                            *)
(***************************************************************************)
PowerChoices_Any(st) == TRUE
\* choices=['on', 'off', 'toggle', 'status'] of the power subparser
PowerChoices(st) == st \in {S_on, S_off, S_toggle, S_status}

\* choices=['on', 'off', 'toggle', 'status'] of the mute subparser
MuteChoices(st) == st \in {S_on, S_off, S_toggle, S_status}

\* parse_args() takes an argument that starts with '-' as a positional only
\* when it reads as a negative number
OptionLike(st) ==
    /\ st # <<>>
    /\ st[1] = "-"
    /\ ~(Len(st) >= 2 /\ \A i \in 2..Len(st) : DigitVal(st[i], 10) >= 0)

ArgsAccepted(c, st) ==
    /\ ~OptionLike(st)
    /\ (c = "power" => PowerChoices(st))
    /\ (c = "mute" => MuteChoices(st))

(***************************************************************************)
(* power()                                                                 *)
(***************************************************************************)
\* the command power() sends for a state, <<>> in the else branch
PowerCommand(st) ==
    IF st = S_on THEN PWR01
    ELSE IF st = S_off THEN PWR00
    ELSE IF st = S_toggle THEN PWRQSTN
    ELSE IF st = S_status THEN PWRQSTN
    ELSE <<>>

PowerStatusMessage_Prefix(resp) ==
    IF StartsWith(resp, <<"!", "1", "P", "W", "R", "0", "0">>) THEN <<"Status: Off">>
    ELSE IF StartsWith(resp, <<"!", "1", "P", "W", "R", "0", "1">>) THEN <<"Status: On">>
    ELSE <<"Status: Unknown", resp>>
\* the line power() prints for the response to the status query
PowerStatusMessage(resp) ==
    IF resp = PowerOffResponse THEN <<"Status: Off">>
    ELSE IF resp = PowerOnResponse THEN <<"Status: On">>
    ELSE <<"Status: Unknown", resp>>

(***************************************************************************)
(* get_volume(), set_volume(), volume()                                    *)
(***************************************************************************)
\* int(dec_vol * 100 / 92)
PercentOfLevel(dec_vol) == TruncDiv(dec_vol * 100, 92)

LevelOfPercent_Ceil(v) == 0 - TruncDiv(0 - (v * 92) - 99, 100)
\* int(vol / 100 * 92)
LevelOfPercent(v) == TruncDiv(v * 92, 100)

\* get_volume() on the response of the query: the percentage, or the exception
GetVolume(resp) ==
    IF ~IsAscii(resp) THEN [ok |-> FALSE, err |-> "UnicodeDecodeError", val |-> 0]
    ELSE LET hex_vol == Remove(Remove(resp, <<"!", "1", "M", "V", "L">>), <<SUB>>)
             dec_vol == PyInt(hex_vol, 16)
         IN  IF dec_vol.ok
             THEN [ok |-> TRUE, err |-> "", val |-> PercentOfLevel(dec_vol.val)]
             ELSE [ok |-> FALSE, err |-> "ValueError", val |-> 0]

\* the command set_volume() sends
SetVolumeCommand(v) == MVL \o StrUpper(Format02x(LevelOfPercent(v)))

InvalidVolume_NoUpper(v) == v < 0
\* vol < 0 or vol > 100
InvalidVolume(v) == v < 0 \/ v > 100

Adjusted_Clamped(cur, st) ==
    LET d == PyInt(Strip(st, {st[1]}), 10)
        sum == IF st[1] = "+" THEN cur + d.val ELSE cur - d.val
    IN  [ok |-> d.ok,
         val |-> IF sum > 100 THEN 100 ELSE IF sum < 0 THEN 0 ELSE sum]
\* vol + int(args.state.strip('+')), vol - int(args.state.strip('-'))
Adjusted(cur, st) ==
    LET d == PyInt(Strip(st, {st[1]}), 10)
    IN  [ok |-> d.ok,
         val |-> IF st[1] = "+" THEN cur + d.val ELSE cur - d.val]

(***************************************************************************)
(* mute()                                                                  *)
(***************************************************************************)
\* the command mute() sends for a state, <<>> in the else branch
MuteCommand(st) ==
    IF st = S_mute \/ st = S_on THEN AMT01
    ELSE IF st = S_unmute \/ st = S_off THEN AMT00
    ELSE IF st = S_status THEN AMTQSTN
    ELSE <<>>

\* the lines mute() prints for the decoded response to the status query
MuteStatusLines(status) ==
    (IF status = MuteOffResponse THEN <<<<"Status: Off (unmuted)">>>> ELSE <<>>)
    \o (IF status = MuteOnResponse THEN <<<<"Status: On (muted)">>>> ELSE <<>>)

(***************************************************************************)
(* r_input()                                                               *)
(***************************************************************************)
\* the lines r_input() prints for the decoded response to the status query
InputStatusLines(resp) ==
    LET cur_input == Remove(Remove(resp, <<"!", "1">>), <<SUB>>)
    IN  IF cur_input = SLI00 THEN <<<<"Current input: Wii (VCR/DVR)">>>>
        ELSE IF cur_input = SLI01 THEN <<<<"Current input: Cable/Satellite">>>>
        ELSE IF cur_input = SLI02 THEN <<<<"Current input: XBox 360 (Game/TV)">>>>
        ELSE IF cur_input = SLI03 THEN <<<<"Current input: PC (Aux1)">>>>
        ELSE IF cur_input = SLI04 THEN <<<<"Current input: Linux (Aux2)">>>>
        ELSE <<>>

InputCommand_CaseSensitive(st) ==
    IF st \in {S_wii, S_vcr, S_dvr, S_vcrdvr} THEN SLI00
    ELSE IF st = S_cable THEN SLI01
    ELSE IF st \in {S_xbox, S_xbox360, S_360} THEN SLI02
    ELSE IF st = S_pc THEN SLI03
    ELSE IF st \in {S_linux, S_aux2} THEN SLI04
    ELSE <<>>
\* the command the alias chain of r_input() sends, <<>> when no alias matches
InputCommand(st) ==
    LET state_l == StrLower(st)
    IN  IF state_l = S_wii \/ state_l = S_vcr \/ state_l = S_dvr \/ state_l = S_vcrdvr
        THEN SLI00
        ELSE IF state_l = S_cable THEN SLI01
        ELSE IF state_l = S_xbox \/ state_l = S_xbox360 \/ state_l = S_360 THEN SLI02
        ELSE IF state_l = S_pc THEN SLI03
        ELSE IF state_l = S_linux \/ state_l = S_aux2 THEN SLI04
        ELSE <<>>

(***************************************************************************)
(* The command lines of the model.                                         *)
(***************************************************************************)
RECURSIVE DecStr(_)
\* the decimal numeral of n >= 0, as the user types it
DecStr(n) ==
    IF n < 10 THEN <<DecDigits[n + 1]>>
    ELSE DecStr(n \div 10) \o <<DecDigits[(n % 10) + 1]>>

RECURSIVE Casings(_)
\* every upper/lower casing of a word
Casings(w) ==
    IF w = <<>> THEN {<<>>}
    ELSE {<<c>> \o t : c \in {LowerChar(Head(w)), UpperChar(Head(w))},
                       t \in Casings(Tail(w))}

Aliases ==
    {S_wii, S_vcr, S_dvr, S_vcrdvr, S_cable, S_xbox, S_xbox360, S_360, S_pc,
     S_linux, S_aux2}

PowerArgs ==
    {S_on, S_off, S_toggle, S_status, S_mute, <<"O", "N">>, <<"x", "x">>, <<>>}

MuteArgs ==
    {S_mute, S_on, S_unmute, S_off, S_status, S_toggle, <<"M", "U", "T", "E">>,
     <<"x", "x">>, <<>>}

AbsoluteArgs == {DecStr(n) : n \in 0..MaxAbs} \cup {<<"1", "5", "0">>}
UpArgs == {<<"+">> \o DecStr(d) : d \in 0..MaxDelta}
DownArgs == {<<"-">> \o DecStr(d) : d \in 0..MaxDelta}

VolumeArgs ==
    {S_status} \cup AbsoluteArgs \cup UpArgs \cup DownArgs \cup
    {<<>>, <<"+">>, <<"-", "x">>, <<"a", "b", "c">>, <<"5", "x">>, <<" ", "5">>,
     <<"+", "-", "3">>, <<"+", "5", "+">>, <<"1", "_", "0">>, <<"0", "1", "5", "0">>}

InputArgs ==
    {S_status, <<"S", "T", "A", "T", "U", "S">>, <<"t", "v">>, <<"p", "c", "x">>,
     <<"a", "u", "x", "1">>, <<>>} \cup
    UNION {Casings(a) : a \in Aliases}

Commands == {"power", "volume", "mute", "input"}

ArgsOf(c) ==
    IF c = "power" THEN PowerArgs
    ELSE IF c = "volume" THEN VolumeArgs
    ELSE IF c = "mute" THEN MuteArgs
    ELSE InputArgs

(***************************************************************************)
(* The receiver: the bytes waiting on the line when the script reads.      *)
(***************************************************************************)
StatusFrame(body) == Preamble \o body \o <<SUB>>

VolumeStatus(level) == StatusFrame(MVL \o StrUpper(Format02x(level)))

Streams ==
    {VolumeStatus(l) : l \in 0..MaxLevel} \cup
    {StatusFrame(PWR00), StatusFrame(PWR01), StatusFrame(AMT00), StatusFrame(AMT01),
     StatusFrame(SLI00), StatusFrame(SLI01), StatusFrame(SLI02), StatusFrame(SLI03),
     StatusFrame(SLI04), StatusFrame(<<"S", "L", "I", "0", "5">>),
     StatusFrame(<<"P", "W", "R", "N", "/", "A">>)} \cup
    {<<"4", "A">>, <<"5", "C", SUB>>, <<" ", "2", "e", CR>>,
     StatusFrame(MVL \o <<"G", "1">>), StatusFrame(MVL \o <<"-", "4">>),
     StatusFrame(MVL \o <<"0", "x", "2", "E">>), StatusFrame(MVL \o <<"1", "F", "F">>),
     StatusFrame(MVL \o <<"4", "a">>), StatusFrame(MVL \o <<"N", "/", "A">>),
     <<HiByte, "!", "1">>, <<"!", "1", "M", "V", "L", HiByte, "A", SUB>>,
     StatusFrame(PWR01) \o StatusFrame(MVL \o <<"2", "E">>),
     StatusFrame(MVL \o <<"2", "E">>) \o StatusFrame(PWR01),
     StatusFrame(PWR00) \o StatusFrame(PWR00)}

IsQuery(c) == Len(c) = 7 /\ SubSeq(c, 4, 7) = QSTN

\* what may be on the line after `c` was written: anything after a query; after
\* a set command, whose response the script drops, nothing, the echo or a
\* longer burst
Incoming(c) ==
    IF IsQuery(c) THEN Streams
    ELSE {<<>>, StatusFrame(c), StatusFrame(c) \o StatusFrame(PWR01)}

Min(a, b) == IF a <= b THEN a ELSE b

(***************************************************************************)
(* State.                                                                  *)
(***************************************************************************)
VARIABLES
    cmd,        \* the subcommand on the command line
    state,      \* args.state
    pc,         \* where the script is
    ret,        \* where the running send_command() returns to
    command,    \* the `command` argument of the running send_command()
    ser,        \* the serial handle: "none", "open" or "closed"
    wire,       \* the frames written to the serial port, in order
    events,     \* the operations done on the serial port, in order
    response,   \* the bytes the last ser.read() returned
    vol,        \* the local `vol` of volume()
    out,        \* the lines printed, in order
    exitCode,   \* the exit status of the process, -1 while it runs
    reads,      \* every value ser.read() returned, in order
    rt          \* the volume round trip of SpecRT

vars ==
    <<cmd, state, pc, ret, command, ser, wire, events, response, vol, out,
      exitCode, reads, rt>>

NoRt == [stage |-> "none", v |-> 0, frame |-> <<>>, resp |-> <<>>, p |-> 0]

Init ==
    /\ cmd \in Commands
    /\ state \in ArgsOf(cmd)
    /\ pc = "main"
    /\ ret = "none"
    /\ command = <<>>
    /\ ser = "none"
    /\ wire = <<>>
    /\ events = <<>>
    /\ response = <<>>
    /\ vol = 0
    /\ out = <<>>
    /\ exitCode = -1
    /\ reads = <<>>
    /\ rt = NoRt

\* sys.exit(code), or the return of main() with code 0
Exit(code) == pc' = "done" /\ exitCode' = code

\* an exception nothing catches: the traceback is printed, the status is 1
Raise(kind) ==
    /\ Exit(1)
    /\ out' = Append(out, <<"Traceback", kind>>)

\* the call send_command(args.port, args.baud, c), to continue at k
Call(c, k) ==
    /\ command' = c
    /\ ret' = k
    /\ pc' = "open"

(***************************************************************************)
(* main()                                                                  *)
(***************************************************************************)
\* parser.parse_args() and arguments.func(arguments)
Main ==
    /\ pc = "main"
    /\ IF ArgsAccepted(cmd, state)
       THEN /\ pc' = cmd
            /\ UNCHANGED <<out, exitCode>>
       ELSE /\ Exit(2)
            /\ out' = Append(out, <<"usage: error", state>>)
    /\ UNCHANGED <<cmd, state, ret, command, ser, wire, events, response, vol, reads, rt>>

\* the handler returns after its last send_command(), and main() after it
Return ==
    /\ pc = "return"
    /\ Exit(0)
    /\ UNCHANGED <<cmd, state, ret, command, ser, wire, events, response, vol, out, reads, rt>>

(***************************************************************************)
(* send_command()                                                          *)
(***************************************************************************)
\* ser = serial.Serial(port, baud, timeout=1)
SerialOpen ==
    /\ pc = "open"
    /\ ser' = "open"
    /\ events' = Append(events, "open")
    /\ pc' = "write"
    /\ UNCHANGED <<cmd, state, ret, command, wire, response, vol, out, exitCode, reads, rt>>

\* serial.Serial() raises: no handle exists
SerialOpenFails ==
    /\ pc = "open"
    /\ Raise("SerialException")
    /\ UNCHANGED <<cmd, state, ret, command, ser, wire, events, response, vol, reads, rt>>

\* ser.write(bytearray(compiled_command, 'ascii'))
SerWrite ==
    /\ pc = "write"
    /\ wire' = Append(wire, Encode(command))
    /\ events' = Append(events, "write")
    /\ pc' = "read"
    /\ UNCHANGED <<cmd, state, ret, command, ser, response, vol, out, exitCode, reads, rt>>

\* ser.write() raises: the exception leaves send_command() at once
SerWriteFails ==
    /\ pc = "write"
    /\ Raise("SerialException")
    /\ UNCHANGED <<cmd, state, ret, command, ser, wire, events, response, vol, reads, rt>>

\* response = ser.read(size=10): at most ReadSize of the bytes on the line,
\* fewer when the timeout ends the read
SerRead ==
    /\ pc = "read"
    /\ \E s \in Incoming(command) :
         \E n \in 0..Min(ReadSize, Len(s)) :
            /\ response' = SubSeq(s, 1, n)
            /\ reads' = Append(reads, SubSeq(s, 1, n))
    /\ events' = Append(events, "read")
    /\ pc' = "close"
    /\ UNCHANGED <<cmd, state, ret, command, ser, wire, vol, out, exitCode, rt>>

\* ser.read() raises: the exception leaves send_command() at once
SerReadFails ==
    /\ pc = "read"
    /\ Raise("SerialException")
    /\ UNCHANGED <<cmd, state, ret, command, ser, wire, events, response, vol, reads, rt>>

\* ser.close(); return response
SerClose ==
    /\ pc = "close"
    /\ ser' = "closed"
    /\ events' = Append(events, "close")
    /\ pc' = ret
    /\ UNCHANGED <<cmd, state, ret, command, wire, response, vol, out, exitCode, reads, rt>>

(***************************************************************************)
(* power()                                                                 *)
(***************************************************************************)
Power ==
    /\ pc = "power"
    /\ IF PowerCommand(state) = <<>>
       THEN /\ out' = Append(out, <<"Error: Invalid state sent to command 'power'">>)
            /\ Exit(0)
            /\ UNCHANGED <<command, ret>>
       ELSE /\ Call(PowerCommand(state),
                    IF state = S_status THEN "power_status" ELSE "return")
            /\ UNCHANGED <<out, exitCode>>
    /\ UNCHANGED <<cmd, state, ser, wire, events, response, vol, reads, rt>>

\* power(), state 'status', after send_command() returned
PowerStatus ==
    /\ pc = "power_status"
    /\ out' = Append(out, PowerStatusMessage(response))
    /\ Exit(0)
    /\ UNCHANGED <<cmd, state, ret, command, ser, wire, events, response, vol, reads, rt>>

(***************************************************************************)
(* volume()                                                                *)
(***************************************************************************)
Volume ==
    /\ pc = "volume"
    /\ IF state = S_status
       THEN Call(MVLQSTN, "volume_status") /\ UNCHANGED <<vol, out, exitCode>>
       ELSE IF state = <<>>
       THEN Raise("IndexError") /\ UNCHANGED <<vol, command, ret>>
       ELSE IF state[1] = "+"
       THEN Call(MVLQSTN, "volume_adjust") /\ UNCHANGED <<vol, out, exitCode>>
       ELSE IF state[1] = "-"
       THEN Call(MVLQSTN, "volume_adjust") /\ UNCHANGED <<vol, out, exitCode>>
       ELSE IF ~PyInt(<<state[1]>>, 10).ok
       THEN Raise("ValueError") /\ UNCHANGED <<vol, command, ret>>
       ELSE IF PyInt(<<state[1]>>, 10).val \in 0..9
       THEN IF ~PyInt(state, 10).ok
            THEN Raise("ValueError") /\ UNCHANGED <<vol, command, ret>>
            ELSE /\ vol' = PyInt(state, 10).val
                 /\ IF InvalidVolume(vol')
                    THEN /\ out' = Append(out, <<"Invalid volume", state>>)
                         /\ Exit(1)
                         /\ UNCHANGED <<command, ret>>
                    ELSE /\ Call(SetVolumeCommand(vol'), "return")
                         /\ UNCHANGED <<out, exitCode>>
       ELSE /\ out' = Append(out, <<"Unknown argument", state>>)
            /\ Exit(1)
            /\ UNCHANGED <<vol, command, ret>>
    /\ UNCHANGED <<cmd, state, ser, wire, events, response, reads, rt>>

\* volume(), state 'status', after get_volume()'s send_command() returned
VolumeStatusReturn ==
    /\ pc = "volume_status"
    /\ IF GetVolume(response).ok
       THEN /\ out' = Append(out, <<"Volume", GetVolume(response).val>>)
            /\ Exit(0)
       ELSE Raise(GetVolume(response).err)
    /\ UNCHANGED <<cmd, state, ret, command, ser, wire, events, response, vol, reads, rt>>

\* volume(), state '+n' or '-n', after get_volume()'s send_command() returned:
\* the rest of get_volume(), the sum, and set_volume() up to its send_command()
VolumeAdjust ==
    /\ pc = "volume_adjust"
    /\ IF ~GetVolume(response).ok
       THEN Raise(GetVolume(response).err) /\ UNCHANGED <<vol, command, ret>>
       ELSE IF ~Adjusted(GetVolume(response).val, state).ok
       THEN /\ vol' = GetVolume(response).val
            /\ Raise("ValueError")
            /\ UNCHANGED <<command, ret>>
       ELSE /\ vol' = Adjusted(GetVolume(response).val, state).val
            /\ Call(SetVolumeCommand(vol'), "return")
            /\ UNCHANGED <<out, exitCode>>
    /\ UNCHANGED <<cmd, state, ser, wire, events, response, reads, rt>>

(***************************************************************************)
(* mute()                                                                  *)
(***************************************************************************)
Mute ==
    /\ pc = "mute"
    /\ IF MuteCommand(state) = <<>>
       THEN /\ out' = Append(out, <<"Invalid command", state>>)
            /\ Exit(1)
            /\ UNCHANGED <<command, ret>>
       ELSE /\ Call(MuteCommand(state),
                    IF state = S_status THEN "mute_status" ELSE "mute_set")
            /\ UNCHANGED <<out, exitCode>>
    /\ UNCHANGED <<cmd, state, ser, wire, events, response, vol, reads, rt>>

\* mute(), a set path, after send_command() returned
MuteSet ==
    /\ pc = "mute_set"
    /\ out' = Append(out, IF command = AMT01 THEN <<"Mute: On (muted)">>
                                             ELSE <<"Mute: Off (unmuted)">>)
    /\ Exit(0)
    /\ UNCHANGED <<cmd, state, ret, command, ser, wire, events, response, vol, reads, rt>>

\* mute(), state 'status', after send_command() returned
MuteStatus ==
    /\ pc = "mute_status"
    /\ IF IsAscii(response)
       THEN /\ out' = out \o MuteStatusLines(response)
            /\ Exit(0)
       ELSE Raise("UnicodeDecodeError")
    /\ UNCHANGED <<cmd, state, ret, command, ser, wire, events, response, vol, reads, rt>>

(***************************************************************************)
(* r_input()                                                               *)
(***************************************************************************)
\* the alias chain at the end of r_input()
Select ==
    IF InputCommand(state) = <<>>
    THEN Exit(0) /\ UNCHANGED <<command, ret>>
    ELSE Call(InputCommand(state), "return") /\ UNCHANGED exitCode

RInput ==
    /\ pc = "input"
    /\ IF state = S_status
       THEN Call(SLIQSTN, "input_status") /\ UNCHANGED exitCode
       ELSE Select
    /\ UNCHANGED <<cmd, state, ser, wire, events, response, vol, out, reads, rt>>

\* r_input(), state 'status', after send_command() returned: the report, then
\* the alias chain
RInputStatus ==
    /\ pc = "input_status"
    /\ IF IsAscii(response)
       THEN /\ out' = out \o InputStatusLines(response)
            /\ Select
       ELSE Raise("UnicodeDecodeError") /\ UNCHANGED <<command, ret>>
    /\ UNCHANGED <<cmd, state, ser, wire, events, response, vol, reads, rt>>

Next ==
    \/ Main
    \/ Return
    \/ SerialOpen
    \/ SerialOpenFails
    \/ SerWrite
    \/ SerWriteFails
    \/ SerRead
    \/ SerReadFails
    \/ SerClose
    \/ Power
    \/ PowerStatus
    \/ Volume
    \/ VolumeStatusReturn
    \/ VolumeAdjust
    \/ Mute
    \/ MuteSet
    \/ MuteStatus
    \/ RInput
    \/ RInputStatus

Spec == Init /\ [][Next]_vars

(***************************************************************************)
(* The volume round trip: set_volume() of a valid percentage, the receiver *)
(* reporting the level it was set to, get_volume() of that report.         *)
(***************************************************************************)
InitRT ==
    /\ rt \in {[stage |-> "start", v |-> n, frame |-> <<>>, resp |-> <<>>, p |-> 0] :
               n \in {m \in 0..MaxAbs : ~InvalidVolume(m)}}
    /\ cmd = "volume"
    /\ state = DecStr(rt.v)
    /\ pc = "roundtrip"
    /\ ret = "none"
    /\ command = <<>>
    /\ ser = "none"
    /\ wire = <<>>
    /\ events = <<>>
    /\ response = <<>>
    /\ vol = 0
    /\ out = <<>>
    /\ exitCode = -1
    /\ reads = <<>>

\* set_volume(v): the frame it sends
RTSet ==
    /\ rt.stage = "start"
    /\ rt' = [rt EXCEPT !.stage = "set", !.frame = Encode(SetVolumeCommand(rt.v))]
    /\ UNCHANGED <<cmd, state, pc, ret, command, ser, wire, events, response, vol,
                   out, exitCode, reads>>

\* the receiver answers the next query with the parameter it was sent
RTEcho ==
    /\ rt.stage = "set"
    /\ rt' = [rt EXCEPT !.stage = "echoed",
                        !.resp = SubSeq(rt.frame, 1, Len(rt.frame) - 1) \o <<SUB>>]
    /\ UNCHANGED <<cmd, state, pc, ret, command, ser, wire, events, response, vol,
                   out, exitCode, reads>>

\* get_volume() on that answer
RTGet ==
    /\ rt.stage = "echoed"
    /\ GetVolume(rt.resp).ok
    /\ rt' = [rt EXCEPT !.stage = "read", !.p = GetVolume(rt.resp).val]
    /\ UNCHANGED <<cmd, state, pc, ret, command, ser, wire, events, response, vol,
                   out, exitCode, reads>>

NextRT ==
    \/ RTSet
    \/ RTEcho
    \/ RTGet

SpecRT == InitRT /\ [][NextRT]_vars

(***************************************************************************)
(* Claims.                                                                 *)
(***************************************************************************)
Done == pc = "done"

TransportFailed ==
    \E i \in 1..Len(out) : out[i] = <<"Traceback", "SerialException">>

UpperHex == <<"0","1","2","3","4","5","6","7","8","9","A","B","C","D","E","F">>

\* a level 0..255 as two uppercase hex digits
TwoHex(l) == <<UpperHex[(l \div 16) + 1], UpperHex[(l % 16) + 1]>>

Frame(body) == <<"!", "1">> \o body \o <<CR>>

QueryFrame(code) == Frame(code \o <<"Q", "S", "T", "N">>)

\* the frames of the receiver's command table
GrammarFrames ==
    {QueryFrame(code) : code \in {<<"P","W","R">>, <<"M","V","L">>, <<"A","M","T">>,
                                  <<"S","L","I">>}} \cup
    {Frame(<<"P","W","R">> \o p) : p \in {<<"0","0">>, <<"0","1">>}} \cup
    {Frame(<<"A","M","T">> \o p) : p \in {<<"0","0">>, <<"0","1">>}} \cup
    {Frame(<<"S","L","I","0">> \o <<UpperHex[i + 1]>>) : i \in 0..4} \cup
    {Frame(<<"M","V","L">> \o TwoHex(l)) : l \in 0..92}

RelativeRun == cmd = "volume" /\ state \in UpArgs \cup DownArgs

\* C1: send_command closes the serial handle it opened on every exit path, so
\* no run ends with the handle still open.
C1_HandleClosedOnEveryExit == Done => ser # "open"

OverRangeArgs == {DecStr(n) : n \in 101..MaxAbs} \cup {<<"1", "5", "0">>}
NegativeArgs == {<<"-">> \o DecStr(n) : n \in 1..MaxDelta}

\* C2 as stated: a volume argument outside [0, 100], "150" and "-5" alike, is
\* rejected before any transaction: nothing is opened or written and the exit
\* status is not 0.
C2_OutOfRangeRejected ==
    (cmd = "volume" /\ state \in OverRangeArgs \cup NegativeArgs) =>
        /\ events = <<>>
        /\ wire = <<>>
        /\ (Done => exitCode # 0)

\* C2 amended: an unsigned volume argument above 100 is rejected before any
\* transaction with "Invalid volume" and exit status 1; an argument "-n" is a
\* relative decrease: it is never reported as an invalid volume and the first
\* frame it writes is the volume query.
C2_AbsoluteOverRangeRejected ==
    /\ (cmd = "volume" /\ state \in OverRangeArgs) =>
          /\ events = <<>>
          /\ wire = <<>>
          /\ pc \in {"main", "volume", "done"}
          /\ (Done => exitCode = 1 /\ out = <<<<"Invalid volume", state>>>>)
    /\ (cmd = "volume" /\ state \in NegativeArgs) =>
          /\ \A i \in 1..Len(out) : out[i][1] # "Invalid volume"
          /\ (wire # <<>> => wire[1] = QueryFrame(<<"M","V","L">>))
          /\ (pc = "volume_adjust" => wire = <<QueryFrame(<<"M","V","L">>)>>)

C2_Witness ==
    /\ cmd = "volume"
    /\ state = <<"1", "5", "0">>
    /\ Done
    /\ exitCode = 1
    /\ out = <<<<"Invalid volume", <<"1", "5", "0">>>>>>

\* C3: every frame written to the serial port is a frame of the receiver's
\* command table; every MVL set frame carries two uppercase hex digits 00..5C,
\* on the absolute and on the relative path.
C3_FramesFitGrammar == \A i \in 1..Len(wire) : wire[i] \in GrammarFrames

\* C4 as stated: a relative adjustment that ends without a transport failure has
\* written exactly two frames, the volume query and then the frame of an
\* absolute set of current + delta (current - delta).
C4_RelativeWritesTwoFrames ==
    (RelativeRun /\ Done /\ ~TransportFailed) =>
        /\ Len(wire) = 2
        /\ wire[1] = QueryFrame(<<"M","V","L">>)
        /\ GetVolume(reads[1]).ok
        /\ \A d \in 0..MaxDelta :
              /\ state = <<"+">> \o DecStr(d) =>
                    wire[2] = Encode(SetVolumeCommand(GetVolume(reads[1]).val + d))
              /\ state = <<"-">> \o DecStr(d) =>
                    wire[2] = Encode(SetVolumeCommand(GetVolume(reads[1]).val - d))

\* C4 amended: a relative adjustment writes the volume query first; when
\* get_volume returns a percentage c for the response and no transport
\* operation fails it writes exactly two frames, the second being the frame
\* set_volume writes for c + d (c - d) with the sum not clamped (current 50 and
\* "+10" give the frame of a set of 60); when the response does not parse, the
\* run ends with status 1 and only the query written.
C4_RelativeAdjustment ==
    RelativeRun =>
        /\ Len(wire) <= 2
        /\ (Len(wire) >= 1 => wire[1] = QueryFrame(<<"M","V","L">>))
        /\ (Len(wire) = 2 =>
              /\ GetVolume(reads[1]).ok
              /\ \A d \in 0..MaxDelta :
                    /\ state = <<"+">> \o DecStr(d) =>
                          wire[2] = Encode(SetVolumeCommand(GetVolume(reads[1]).val + d))
                    /\ state = <<"-">> \o DecStr(d) =>
                          wire[2] = Encode(SetVolumeCommand(GetVolume(reads[1]).val - d)))
        /\ (Len(wire) = 2 /\ state = <<"+", "1", "0">> /\ GetVolume(reads[1]).val = 50 =>
              wire[2] = <<"!", "1", "M", "V", "L", "3", "7", CR>>)
        /\ (Done /\ ~TransportFailed /\ GetVolume(reads[1]).ok => Len(wire) = 2)
        /\ (Done /\ ~TransportFailed /\ ~GetVolume(reads[1]).ok =>
              Len(wire) = 1 /\ exitCode = 1)

C4_Witness ==
    /\ cmd = "volume"
    /\ state = <<"+", "1", "0">>
    /\ Done
    /\ exitCode = 0
    /\ reads[1] = <<"!", "1", "M", "V", "L", "5", "C", SUB>>
    /\ wire = <<QueryFrame(<<"M","V","L">>), <<"!", "1", "M", "V", "L", "6", "5", CR>>>>

\* a volume status: '!1MVL', two hex digits, '\x1a'
RecognizedVolumeStatus(r) ==
    /\ Len(r) = 8
    /\ SubSeq(r, 1, 5) = <<"!", "1", "M", "V", "L">>
    /\ \E l \in 0..255 : StrUpper(SubSeq(r, 6, 7)) = TwoHex(l)
    /\ r[8] = SUB

\* C5: get_volume returns a percentage only for a response of the form '!1MVL'
\* + 2 hex digits + '\x1a'; for every other response it fails.
C5_GetVolumeRejectsUnrecognized ==
    (cmd = "volume" /\ state = S_status /\ Done /\ exitCode = 0) =>
        RecognizedVolumeStatus(reads[1])

PowerTokens == {<<"o","n">>, <<"o","f","f">>, <<"t","o","g","g","l","e">>,
                <<"s","t","a","t","u","s">>}
MuteTokens == {<<"m","u","t","e">>, <<"o","n">>, <<"u","n","m","u","t","e">>,
               <<"o","f","f">>, <<"s","t","a","t","u","s">>}

\* C6: for power and mute, a state token that is not a recognized one is
\* reported, the process exits non-zero, and nothing is opened or written.
C6_InvalidTokenRejected ==
    ((cmd = "power" /\ state \notin PowerTokens) \/
     (cmd = "mute" /\ state \notin MuteTokens)) =>
        /\ events = <<>>
        /\ wire = <<>>
        /\ ser = "none"
        /\ (Done => exitCode \in {1, 2} /\ out # <<>>)

C6_Witness ==
    /\ cmd = "mute"
    /\ state = <<"t","o","g","g","l","e">>
    /\ Done
    /\ exitCode = 1
    /\ out = <<<<"Invalid command", state>>>>
    /\ wire = <<>>

\* the select frame of an alias
AliasFrame(a) ==
    IF a \in {<<"w","i","i">>, <<"v","c","r">>, <<"d","v","r">>,
              <<"v","c","r","/","d","v","r">>}
    THEN <<"!", "1", "S", "L", "I", "0", "0", CR>>
    ELSE IF a = <<"c","a","b","l","e">> THEN <<"!", "1", "S", "L", "I", "0", "1", CR>>
    ELSE IF a \in {<<"x","b","o","x">>, <<"x","b","o","x","3","6","0">>, <<"3","6","0">>}
    THEN <<"!", "1", "S", "L", "I", "0", "2", CR>>
    ELSE IF a = <<"p","c">> THEN <<"!", "1", "S", "L", "I", "0", "3", CR>>
    ELSE <<"!", "1", "S", "L", "I", "0", "4", CR>>

AnyCasingOfAlias(st) == \E a \in Aliases : st \in Casings(a)

\* C7: input selection depends only on the lower-cased alias: every casing of
\* an alias writes exactly the one select frame of that alias (none only when
\* the transport fails before the write); any other argument writes no select
\* frame, and unless it is the status query nothing is written or printed and
\* the run ends with status 0.
C7_InputSelection ==
    cmd = "input" =>
        /\ \A a \in Aliases :
              state \in Casings(a) =>
                 /\ wire \in {<<>>, <<AliasFrame(a)>>}
                 /\ (Done /\ ~TransportFailed => wire = <<AliasFrame(a)>> /\ exitCode = 0)
                 /\ (Len(events) >= 2 => wire = <<AliasFrame(a)>>)
        /\ (~AnyCasingOfAlias(state) /\ state # <<"s","t","a","t","u","s">>) =>
                 /\ wire = <<>>
                 /\ events = <<>>
                 /\ out = <<>>
                 /\ (Done => exitCode = 0)
        /\ state = <<"s","t","a","t","u","s">> =>
                 \A i \in 1..Len(wire) : wire[i] = QueryFrame(<<"S","L","I">>)

C7_Witness ==
    /\ cmd = "input"
    /\ state = <<"X","B","O","X">>
    /\ Done
    /\ exitCode = 0
    /\ wire = <<<<"!", "1", "S", "L", "I", "0", "2", CR>>>>

\* C8: power status writes the single frame '!1PWRQSTN\r' and classifies every
\* response of at most 10 bytes: exactly '!1PWR00\x1a' is Off, exactly
\* '!1PWR01\x1a' is On, anything else, the empty response included, is Unknown
\* with the raw bytes; once the response is read the command does not fail.
C8_PowerStatus ==
    (cmd = "power" /\ state = <<"s","t","a","t","u","s">>) =>
        /\ wire \in {<<>>, <<QueryFrame(<<"P","W","R">>)>>}
        /\ (Len(events) >= 2 => wire = <<QueryFrame(<<"P","W","R">>)>>)
        /\ Len(response) <= 10
        /\ (Done /\ ~TransportFailed) =>
              /\ exitCode = 0
              /\ Len(reads) = 1
              /\ Len(out) = 1
              /\ (out[1] = <<"Status: Off">>) <=>
                    (response = <<"!", "1", "P", "W", "R", "0", "0", SUB>>)
              /\ (out[1] = <<"Status: On">>) <=>
                    (response = <<"!", "1", "P", "W", "R", "0", "1", SUB>>)
              /\ (response \notin {<<"!", "1", "P", "W", "R", "0", "0", SUB>>,
                                   <<"!", "1", "P", "W", "R", "0", "1", SUB>>}) =>
                    out[1] = <<"Status: Unknown", response>>

C8_Witness ==
    /\ cmd = "power"
    /\ state = <<"s","t","a","t","u","s">>
    /\ Done
    /\ response = <<>>
    /\ reads = <<<<>>>>
    /\ out = <<<<"Status: Unknown", <<>>>>>>

\* the level a frame '!1MVLhh\r' carries
FrameLevel(f) ==
    IF \E l \in 0..255 : f = Frame(<<"M","V","L">> \o TwoHex(l))
    THEN CHOOSE l \in 0..255 : f = Frame(<<"M","V","L">> \o TwoHex(l))
    ELSE -1

\* C9: for every percentage v in [0, 100], set_volume sends the level
\* L = trunc(v*92/100), 0 <= L <= 92, as two uppercase hex digits, and
\* get_volume reads that level back as p = trunc(L*100/92) with p <= v and
\* v - p <= 2.
C9_RoundTrip ==
    /\ rt.stage \in {"set", "echoed", "read"} =>
          /\ FrameLevel(rt.frame) = (rt.v * 92) \div 100
          /\ FrameLevel(rt.frame) \in 0..92
    /\ rt.stage = "echoed" => GetVolume(rt.resp).ok
    /\ rt.stage = "read" =>
          /\ rt.p = (FrameLevel(rt.frame) * 100) \div 92
          /\ rt.p <= rt.v
          /\ rt.v - rt.p <= 2

\* the round trip is not exact: 2 is set as level 1 and read back as 1
C9_Witness ==
    /\ rt.stage = "read"
    /\ rt.v = 2
    /\ rt.frame = <<"!", "1", "M", "V", "L", "0", "1", CR>>
    /\ rt.p = 1

Cycle == <<"open", "write", "read", "close">>

StatusQueryOf(c) ==
    IF c = "power" THEN QueryFrame(<<"P","W","R">>)
    ELSE IF c = "volume" THEN QueryFrame(<<"M","V","L">>)
    ELSE IF c = "mute" THEN QueryFrame(<<"A","M","T">>)
    ELSE QueryFrame(<<"S","L","I">>)

Count(op) == Cardinality({i \in 1..Len(events) : events[i] = op})

\* C10: the operations on the serial port are open, write, read, close cycles
\* in that order with no retry: at most two cycles, two only for a relative
\* volume adjustment, the second opened after the first was closed; every read
\* returns at most 10 bytes; no frame is written twice; a status query writes
\* only its QSTN frame; a run that ends with status 0 left no cycle unfinished.
C10_Transactions ==
    /\ Len(events) <= 8
    /\ \A i \in 1..Len(events) : events[i] = (Cycle \o Cycle)[i]
    /\ Len(events) > 4 => (cmd = "volume" /\ state # <<>> /\ state[1] \in {"+", "-"})
    /\ Len(wire) = Count("write")
    /\ Len(reads) = Count("read")
    /\ (ser = "open") <=> (Count("open") = Count("close") + 1)
    /\ Count("open") - Count("close") \in {0, 1}
    /\ \A i \in 1..Len(reads) : Len(reads[i]) <= 10
    /\ Len(wire) = 2 => wire[1] # wire[2]
    /\ state = <<"s","t","a","t","u","s">> =>
          /\ Len(wire) <= 1
          /\ \A i \in 1..Len(wire) : wire[i] = StatusQueryOf(cmd)
    /\ (Done /\ exitCode = 0) => Len(events) \in {0, 4, 8}

C10_Witness ==
    /\ cmd = "volume"
    /\ state = <<"-", "5">>
    /\ Done
    /\ exitCode = 0
    /\ events = Cycle \o Cycle
    /\ Len(reads[2]) = 10

====
